---- MODULE Spec2Model ----
(***************************************************************************)
(* Model of django_fsm: the FSMTag transition table (fsm_transition.py),   *)
(* the `transition` decorator and FSMField.change_state (fsm_field.py).    *)
(*                                                                         *)
(* Python values are records tagged by `kind`; an outcome of a call is     *)
(* either Ret(value) or Raise(exception).                                  *)
(***************************************************************************)
EXTENDS Integers, Sequences, FiniteSets, TLC

\* ------------------------------------------------------------------ bounds
MaxTransitions == 2   \* direct add_transition calls on one tag
MaxSrcLen == 2        \* length of a `src` list handed to the decorator
MaxOneOfArgs == 2     \* number of states handed to ONE_OF(...)

\* ----------------------------------------------------------- Python values
None == [kind |-> "None"]
Str(s) == [kind |-> "str", val |-> s]
List(items) == [kind |-> "list", items |-> items]
ONE_OF(allowed) == [kind |-> "ONE_OF", allowed_states |-> allowed]

Ret(v) == [kind |-> "return", value |-> v]
Raise(type, at) == [kind |-> "raise", exc |-> [type |-> type, at |-> at]]

IsNone(v) == v.kind = "None"

\* the instance has no __fsm_<name> attribute yet
Unset == [kind |-> "unset"]
\* the FSMField of the model class, called `state`, with the default
\* readonly=True
FieldName == "state"
readonly == TRUE
TheField == [kind |-> "FSMField", name |-> FieldName]

\* Truth value of a Python object used as an `if` condition: None and the
\* empty string are false, every other string is true.
Truthy(v) == IF v.kind = "None" THEN FALSE
             ELSE IF v.kind = "str" THEN v.val # ""
             ELSE TRUE

\* ------------------------------------------------------------ input sets
StateNames == {"", "a", "b"}
States == {Str(s) : s \in StateNames}
Sources == States \cup {Str("*"), Str("+")}
OneOfAB == ONE_OF(<<"a", "b">>)
Destinations == {None, Str("a"), OneOfAB}
OnErrors == {None, Str(""), Str("b")}
GuardNames == {"g1", "g2"}
SeqsUpTo(S, n) == UNION {[1..k -> S] : k \in 0..n}
Conditions == {None, List(<<>>), List(<<"g1">>), List(<<"g1", "g2">>)}
\* (destination, on_error, conditions) of the direct add_transition calls
DirectSpecs == {[destination |-> None, on_error |-> None, conditions |-> None],
                [destination |-> Str("a"), on_error |-> Str("b"),
                 conditions |-> List(<<"g1">>)],
                [destination |-> Str("b"), on_error |-> Str(""),
                 conditions |-> List(<<>>)],
                [destination |-> OneOfAB, on_error |-> None,
                 conditions |-> List(<<"g1", "g2">>)]}
SrcArgs == Sources \cup {List(q) : q \in SeqsUpTo(Sources, MaxSrcLen)}
\* the `field` argument of the decorator: a field name or the field itself
FieldArgs == {Str(FieldName), Str("other"), TheField}
\* the class whose class_prepared signal reaches the field
Senders == {"owner", "subclass", "unrelated"}
Receivers == {"returns", "raises"}
MethodErrors == {"ValueError"}
\* what the wrapped method does when it is called
Results == {None, Str("a"), Str("z")}
Behaviours == {Ret(v) : v \in Results}
              \cup {Raise(e, "method") : e \in MethodErrors}

\* ------------------------------------------------------------------ state
VARIABLES
    transitions,   \* FSMTag.transitions: source -> transition dict
    phase,         \* "none" | "direct" | "ready" | "broken": how the tag was built
    state,         \* the model instance's stored state (__fsm_<name>)
    field,         \* FSMTag.field: a field name or the field
    last           \* record of the last operation: its inputs and outcome

vars == <<transitions, phase, state, field, last>>

EmptyTable == [k \in {} |-> None]
NoCall == [op |-> "none"]

\* --------------------------------------------------------------- FSMTag
\* variant: `+` is tried before `*`
get_transition_plus_first(table, source) ==
    IF source \in DOMAIN table THEN table[source]
    ELSE IF Str("+") \in DOMAIN table THEN table[Str("+")]
    ELSE IF Str("*") \in DOMAIN table THEN table[Str("*")]
    ELSE None

get_transition(table, source) ==
    IF source \in DOMAIN table THEN table[source]
    ELSE IF Str("*") \in DOMAIN table THEN table[Str("*")]
    ELSE IF Str("+") \in DOMAIN table THEN table[Str("+")]
    ELSE None

\* variant: no duplicate check, a second registration replaces the first
add_transition_overwrite(table, source, destination, on_error, conditions) ==
    [table |-> [k \in DOMAIN table \cup {source} |->
                   IF k = source
                   THEN [kind |-> "dict", source |-> source,
                         destination |-> destination,
                         on_error |-> on_error, conditions |-> conditions]
                   ELSE table[k]],
     result |-> Ret(None)]

\* Result: [table |-> table after the call, result |-> Ret(None) | Raise]
add_transition(table, source, destination, on_error, conditions) ==
    IF source \in DOMAIN table
    THEN [table |-> table, result |-> Raise("AssertionError", "add_transition")]
    ELSE [table |-> [k \in DOMAIN table \cup {source} |->
                        IF k = source
                        THEN [kind |-> "dict", source |-> source,
                              destination |-> destination,
                              on_error |-> on_error, conditions |-> conditions]
                        ELSE table[k]],
          result |-> Ret(None)]

\* `self.transitions['+'].target` reads an attribute of a dict, which raises
\* AttributeError whenever the expression is evaluated.
has_transition(table, st) ==
    IF st \in DOMAIN table THEN Ret(TRUE)
    ELSE IF Str("*") \in DOMAIN table THEN Ret(TRUE)
    ELSE IF Str("+") \in DOMAIN table THEN Raise("AttributeError", "has_transition")
    ELSE Ret(FALSE)

\* variant: one passing guard is enough
conditions_met_any(table, guardVal, st) ==
    LET transition == get_transition(table, st) IN
    IF IsNone(transition) THEN FALSE
    ELSE IF IsNone(transition.conditions) THEN TRUE
    ELSE \E i \in DOMAIN transition.conditions.items :
            guardVal[transition.conditions.items[i]]

\* guardVal[g] is what guard g returns for the method owner
conditions_met(table, guardVal, st) ==
    LET transition == get_transition(table, st) IN
    IF IsNone(transition) THEN FALSE
    ELSE IF IsNone(transition.conditions) THEN TRUE
    ELSE \A i \in DOMAIN transition.conditions.items :
            guardVal[transition.conditions.items[i]]

next_state(table, current_state) ==
    LET transition == get_transition(table, current_state) IN
    IF IsNone(transition) THEN Raise("TransitionNotAllowed", "next_state")
    ELSE Ret(transition.destination)

exception_state(table, current_state) ==
    LET transition == get_transition(table, current_state) IN
    IF IsNone(transition) THEN Raise("TransitionNotAllowed", "exception_state")
    ELSE Ret(transition.on_error)

\* ---------------------------------------------------------------- ONE_OF
\* variant: the empty argument list is accepted
ONE_OF_init_no_check(args) ==
    IF Len(args) > 0 /\ args[1].kind = "list"
    THEN Ret(ONE_OF([i \in DOMAIN args[1].items |-> args[1].items[i].val]))
    ELSE Ret(ONE_OF([i \in DOMAIN args |-> args[i].val]))

\* ONE_OF(*allowed_states); args is the tuple of positional arguments.  When
\* the first argument is neither a str nor a list/tuple, no allowed_states
\* attribute is set.
ONE_OF_init(args) ==
    IF Len(args) = 0 THEN Raise("ValueError", "ONE_OF.__init__")
    ELSE IF args[1].kind = "str"
    THEN Ret(ONE_OF([i \in DOMAIN args |-> args[i].val]))
    ELSE IF args[1].kind = "list"
    THEN Ret(ONE_OF([i \in DOMAIN args[1].items |-> args[1].items[i].val]))
    ELSE Ret([kind |-> "ONE_OF"])

\* variant: the result is taken as the next state without the membership test
ONE_OF_get_state_any(one_of, result) ==
    Ret(result)

\* ONE_OF.get_state(result)
ONE_OF_get_state(one_of, result) ==
    IF \E i \in DOMAIN one_of.allowed_states :
          result = Str(one_of.allowed_states[i])
    THEN Ret(result)
    ELSE Raise("TransitionNotAllowed", "ONE_OF.get_state")

\* ------------------------------------------------------------- decorator
\* The loop of internal_method over a `src` list: stops at the first
\* add_transition that raises.
RECURSIVE add_each(_, _, _, _, _, _)
add_each(table, items, i, dest, on_error, conditions) ==
    IF i > Len(items) THEN [table |-> table, result |-> Ret(None)]
    ELSE LET r == add_transition(table, items[i], dest, on_error, conditions) IN
         IF r.result.kind = "raise" THEN r
         ELSE add_each(r.table, items, i + 1, dest, on_error, conditions)

\* transition(src, dest, field, on_error, conditions)(method): a fresh
\* FSMTag is attached to the method, then the sources are registered.
internal_method(src, dest, on_error, conditions) ==
    IF src.kind = "list"
    THEN add_each(EmptyTable, src.items, 1, dest, on_error, conditions)
    ELSE add_transition(EmptyTable, src, dest, on_error, conditions)

\* -------------------------------------------------------------- FSMField
signal_kwargs(source, destination, exception) ==
    [source |-> source, destination |-> destination, exception |-> exception]

\* variant: the stored state is read again to find the fallback
on_exception_rereads(table, st, current_state, next, exc, ev) ==
    LET es == exception_state(table, st) IN
    IF es.kind = "raise"
    THEN [state |-> st, events |-> ev \o <<"get_state", "exception_state">>,
          sent |-> <<>>, result |-> es]
    ELSE IF Truthy(es.value)
    THEN [state |-> es.value,
          events |-> ev \o <<"get_state", "exception_state", "set_state", "send">>,
          sent |-> <<signal_kwargs(current_state, es.value, exc.exc)>>,
          result |-> exc]
    ELSE [state |-> st, events |-> ev \o <<"get_state", "exception_state">>,
          sent |-> <<>>, result |-> exc]

\* variant: the failure signal is sent before the fallback is written
on_exception_send_first(table, st, current_state, next, exc, ev) ==
    LET es == exception_state(table, current_state) IN
    IF es.kind = "raise"
    THEN [state |-> st, events |-> ev \o <<"exception_state">>,
          sent |-> <<>>, result |-> es]
    ELSE IF Truthy(es.value)
    THEN [state |-> es.value,
          events |-> ev \o <<"exception_state", "send", "set_state">>,
          sent |-> <<signal_kwargs(current_state, es.value, exc.exc)>>,
          result |-> exc]
    ELSE [state |-> st, events |-> ev \o <<"exception_state">>,
          sent |-> <<>>, result |-> exc]

\* The `except Exception` clause of change_state; `exc` is the Raise caught,
\* `ev` the events so far.
on_exception(table, st, current_state, next, exc, ev) ==
    LET es == exception_state(table, current_state) IN
    IF es.kind = "raise"
    THEN [state |-> st, events |-> ev \o <<"exception_state">>,
          sent |-> <<>>, result |-> es]
    ELSE IF Truthy(es.value)
    THEN [state |-> es.value,
          events |-> ev \o <<"exception_state", "set_state", "send">>,
          sent |-> <<signal_kwargs(current_state, es.value, exc.exc)>>,
          result |-> exc]
    ELSE [state |-> st, events |-> ev \o <<"exception_state">>,
          sent |-> <<>>, result |-> exc]

\* One call of the decorated method.  st: stored state, guardVal: what each
\* condition returns, behaviour: what the wrapped method does when called.
\* Result: the stored state afterwards, the steps taken, the signals sent
\* and what the caller gets.
change_state(table, st, guardVal, behaviour) ==
    LET current_state == st
        ht == has_transition(table, current_state)
        ev1 == <<"get_state", "has_transition">>
        ev2 == ev1 \o <<"conditions_met">>
        ev3 == ev2 \o <<"next_state">>
        ev4 == ev3 \o <<"method">>
    IN
    IF st.kind = "unset"
    THEN [state |-> st, events |-> <<"get_state">>, sent |-> <<>>,
          result |-> Raise("AttributeError", "get_state")]
    ELSE IF ht.kind = "raise"
    THEN [state |-> st, events |-> ev1, sent |-> <<>>, result |-> ht]
    ELSE IF ~ht.value
    THEN [state |-> st, events |-> ev1, sent |-> <<>>,
          result |-> Raise("TransitionNotAllowed", "change_state.has_transition")]
    ELSE IF ~conditions_met(table, guardVal, current_state)
    THEN [state |-> st, events |-> ev2, sent |-> <<>>,
          result |-> Raise("TransitionNotAllowed", "change_state.conditions_met")]
    ELSE
    LET ns == next_state(table, current_state) IN
    IF ns.kind = "raise"
    THEN [state |-> st, events |-> ev3, sent |-> <<>>, result |-> ns]
    ELSE
    LET next == ns.value IN
    IF behaviour.kind = "raise"
    THEN on_exception(table, st, current_state, next, behaviour, ev4)
    ELSE
    LET result == behaviour.value IN
    IF IsNone(next)
    THEN [state |-> st, events |-> ev4 \o <<"send">>,
          sent |-> <<signal_kwargs(current_state, next, None)>>,
          result |-> Ret(result)]
    ELSE IF next.kind = "ONE_OF"
    THEN LET gs == ONE_OF_get_state(next, result) IN
         IF gs.kind = "raise"
         THEN on_exception(table, st, current_state, next, gs,
                           ev4 \o <<"ONE_OF.get_state">>)
         ELSE [state |-> gs.value,
               events |-> ev4 \o <<"ONE_OF.get_state", "set_state", "send">>,
               sent |-> <<signal_kwargs(current_state, gs.value, None)>>,
               result |-> Ret(result)]
    ELSE [state |-> next, events |-> ev4 \o <<"set_state", "send">>,
          sent |-> <<signal_kwargs(current_state, next, None)>>,
          result |-> Ret(result)]

\* variant: every assignment goes through
descriptor_set_unchecked(st, value) ==
    [state |-> value, result |-> Ret(None)]

\* FSMFieldDescriptor.__set__(model, value): instance.state = value
descriptor_set(st, value) ==
    IF readonly /\ st.kind # "unset"
    THEN [state |-> st, result |-> Raise("AttributeError", "__set__")]
    ELSE [state |-> value, result |-> Ret(None)]

\* variant: the handler attaches a new tag bound to the field
assign_field_to_tag_new_tag(tag, sender) ==
    IF sender = "unrelated" THEN tag
    ELSE [field |-> TheField, transitions |-> EmptyTable]

\* FSMField.assign_field_to_tag(sender) for the tag of the decorated method;
\* tag is [field, transitions].  parent_cls is the owner class.
assign_field_to_tag(tag, sender) ==
    IF sender = "unrelated" THEN tag
    ELSE IF tag.field = Str(FieldName) THEN [tag EXCEPT !.field = TheField]
    ELSE tag

\* _change_state, the wrapper the decorator returns: it calls
\* fsm_tag.field.change_state, which a field name (a str) does not have.
wrapper_change_state(tagField, table, st, guardVal, behaviour) ==
    IF tagField.kind = "FSMField"
    THEN change_state(table, st, guardVal, behaviour)
    ELSE [state |-> st, events |-> <<>>, sent |-> <<>>,
          result |-> Raise("AttributeError", "_change_state")]

\* change_state with a receiver connected to the `transition` signal.
\* Signal.send calls the receiver and lets its exception propagate; both
\* send calls (lines 159 and 162) are the last effect of their path, so a
\* raising receiver replaces what the caller would have got.
change_state_notified(tagField, table, st, guardVal, behaviour, receiver) ==
    LET r == wrapper_change_state(tagField, table, st, guardVal, behaviour) IN
    IF receiver = "raises" /\ r.sent # <<>>
    THEN [r EXCEPT !.result = Raise("ReceiverError", "send")]
    ELSE r

\* ---------------------------------------------------------------- actions
Init ==
    /\ transitions = EmptyTable
    /\ phase = "none"
    /\ state = Unset
    /\ field = None
    /\ last = NoCall

\* instance.state = value, through the descriptor; instances exist once the
\* class and its decorated method do
DirectAssign ==
    /\ phase \in {"ready", "direct"}
    /\ \E value \in States :
          LET r == descriptor_set(state, value) IN
          /\ state' = r.state
          /\ last' = [op |-> "__set__", value |-> value, result |-> r.result]
    /\ UNCHANGED <<transitions, phase, field>>

\* class_prepared reaches the field's handler
Bind ==
    /\ phase \in {"ready", "direct"}
    /\ \E sender \in Senders :
          LET t == assign_field_to_tag([field |-> field,
                                        transitions |-> transitions], sender) IN
          /\ field' = t.field
          /\ transitions' = t.transitions
          /\ last' = [op |-> "assign_field_to_tag", sender |-> sender,
                      tagField |-> field]
    /\ UNCHANGED <<phase, state>>

\* A call reads the guards and runs the method only on a bound tag and an
\* initialised instance; otherwise those inputs are fixed to one value.
Reads(tagField, st) == tagField.kind = "FSMField" /\ st.kind # "unset"
NoGuards == [g \in GuardNames |-> TRUE]

\* FSMTag(field) is constructed directly
NewTag ==
    /\ phase = "none"
    /\ transitions' = EmptyTable
    /\ phase' = "direct"
    /\ field' = TheField
    /\ last' = [op |-> "FSMTag"]
    /\ UNCHANGED state

\* ONE_OF is built from the same states given as separate arguments and as
\* one list, and each object is asked for a result
NewOneOf ==
    /\ phase = "none"
    /\ \E names \in SeqsUpTo(States, MaxOneOfArgs), r \in Results :
          LET separate == ONE_OF_init(names)
              single == ONE_OF_init(<<List(names)>>)
          IN last' = [op |-> "ONE_OF", names |-> names, r |-> r,
                      separate |-> separate, single |-> single,
                      get_state_separate |->
                          IF separate.kind = "raise" THEN separate
                          ELSE ONE_OF_get_state(separate.value, r),
                      get_state_single |->
                          IF single.kind = "raise" THEN single
                          ELSE ONE_OF_get_state(single.value, r)]
    /\ UNCHANGED <<transitions, phase, state, field>>

\* A method is decorated with @transition(...)
Decorate ==
    /\ phase = "none"
    /\ \E src \in SrcArgs, dest \in Destinations, on_error \in OnErrors,
          conditions \in Conditions, f \in FieldArgs :
          LET r == internal_method(src, dest, on_error, conditions) IN
          /\ field' = f
          /\ transitions' = r.table
          /\ phase' = IF r.result.kind = "raise" THEN "broken" ELSE "ready"
          /\ last' = [op |-> "transition", src |-> src, dest |-> dest,
                      on_error |-> on_error, conditions |-> conditions,
                      result |-> r.result]
    /\ UNCHANGED state

\* tag.add_transition(...) called directly on the tag
AddTransition ==
    /\ phase = "direct"
    /\ \E source \in Sources, d \in DirectSpecs :
          /\ \/ Cardinality(DOMAIN transitions) < MaxTransitions
             \/ source \in DOMAIN transitions
          /\ LET r == add_transition(transitions, source, d.destination,
                                     d.on_error, d.conditions) IN
             /\ transitions' = r.table
             /\ last' = [op |-> "add_transition", source |-> source,
                         dest |-> d.destination, on_error |-> d.on_error,
                         conditions |-> d.conditions, result |-> r.result]
    /\ UNCHANGED <<phase, state, field>>

\* The tag is asked about one state; the answers depend on the table only,
\* so they are taken before an instance exists
Query ==
    /\ phase # "none"
    /\ state = Unset
    /\ \E s \in States, guardVal \in [GuardNames -> BOOLEAN] :
          last' = [op |-> "query", st |-> s, guardVal |-> guardVal,
                   conditions_met |-> conditions_met(transitions, guardVal, s),
                   get_transition |-> get_transition(transitions, s),
                   has_transition |-> has_transition(transitions, s),
                   next_state |-> next_state(transitions, s),
                   exception_state |-> exception_state(transitions, s)]
    /\ UNCHANGED <<transitions, phase, state, field>>

\* The decorated method is called on the instance
ChangeState ==
    /\ phase \in {"ready", "direct"}
    /\ \E guardVal \in [GuardNames -> BOOLEAN], behaviour \in Behaviours :
          /\ Reads(field, state) \/ (guardVal = NoGuards /\ behaviour = Ret(None))
          /\ LET r == wrapper_change_state(field, transitions, state, guardVal,
                                        behaviour) IN
             /\ state' = r.state
             /\ last' = [op |-> IF field.kind = "FSMField" THEN "change_state"
                                ELSE "_change_state",
                         before |-> state,
                         guardVal |-> guardVal, behaviour |-> behaviour,
                         events |-> r.events, sent |-> r.sent,
                         result |-> r.result]
    /\ UNCHANGED <<transitions, phase, field>>

\* The decorated method is called while a receiver is connected to the signal
ChangeStateNotified ==
    /\ phase \in {"ready", "direct"}
    /\ \E guardVal \in [GuardNames -> BOOLEAN], behaviour \in Behaviours,
          receiver \in Receivers :
          /\ Reads(field, state) \/ (guardVal = NoGuards /\ behaviour = Ret(None))
          /\ LET r == change_state_notified(field, transitions, state, guardVal,
                                         behaviour, receiver) IN
             /\ state' = r.state
             /\ last' = [op |-> IF field.kind = "FSMField" THEN "change_state"
                                ELSE "_change_state",
                         before |-> state,
                         guardVal |-> guardVal, behaviour |-> behaviour,
                         receiver |-> receiver,
                         events |-> r.events, sent |-> r.sent,
                         result |-> r.result]
    /\ UNCHANGED <<transitions, phase, field>>

Next ==
    \/ DirectAssign \/ NewOneOf \/ NewTag \/ Decorate \/ AddTransition
    \/ Bind \/ Query \/ ChangeState
Spec == Init /\ [][Next]_vars

\* The same program with a receiver connected to the signal
NextReceivers ==
    \/ DirectAssign \/ NewTag \/ Decorate \/ AddTransition \/ Bind
    \/ ChangeStateNotified
SpecReceivers == Init /\ [][NextReceivers]_vars

TypeOK ==
    /\ DOMAIN transitions \subseteq Sources
    /\ phase \in {"none", "direct", "ready", "broken"}
    /\ state \in States \cup {Unset}
    /\ field \in FieldArgs \cup {None}

\* ------------------------------------------------- vocabulary of the claims
\* These restate the documented contract; they do not use the operators above.
Exact(s) == s \in DOMAIN transitions
Star == Str("*") \in DOMAIN transitions
Plus == Str("+") \in DOMAIN transitions
EligiblePlus(s) == Plus /\ transitions[Str("+")].destination # s
\* the documented hasTransition: exact, or `*`, or an eligible `+`
Permitted(s) == Exact(s) \/ Star \/ EligiblePlus(s)
\* the documented resolution order: exact, then `*`, then `+`
Winner(s) == IF Exact(s) THEN transitions[s]
             ELSE IF Star THEN transitions[Str("*")]
             ELSE transitions[Str("+")]

\* change_state ran on an instance that has a stored state
Called == last.op = "change_state" /\ last.before.kind = "str"
Invoked == \E i \in DOMAIN last.events : last.events[i] = "method"
GuardsPass(spec) ==
    \/ spec.conditions.kind = "None"
    \/ \A i \in DOMAIN spec.conditions.items : last.guardVal[spec.conditions.items[i]]
IsTransitionNotAllowed(r) == r.kind = "raise" /\ r.exc.type = "TransitionNotAllowed"
Allowed(one_of) == {Str(one_of.allowed_states[i]) : i \in DOMAIN one_of.allowed_states}

\* C1: for a state with no exact entry, no `*` entry and no eligible `+`
\* entry, has_transition is false and calling the decorated method raises
\* TransitionNotAllowed without calling the wrapped method, without writing
\* the stored state and without sending a signal.
C1_NotPermittedRaises ==
    /\ (last.op = "query" /\ ~Permitted(last.st))
          => last.has_transition = Ret(FALSE)
    /\ (Called /\ ~Permitted(last.before))
          => /\ IsTransitionNotAllowed(last.result)
             /\ ~Invoked
             /\ state = last.before
             /\ last.sent = <<>>

\* C2: for a permitted transition one of whose guards returns false, the
\* call raises TransitionNotAllowed, the wrapped method is not called, the
\* stored state is unchanged and no signal is sent.
C2_GuardFailsRaises ==
    (Called /\ Permitted(last.before) /\ ~GuardsPass(Winner(last.before)))
       => /\ IsTransitionNotAllowed(last.result)
          /\ ~Invoked
          /\ state = last.before
          /\ last.sent = <<>>

\* C3: for a permitted transition with a literal destination d, passing
\* guards and a wrapped method returning r: the stored state becomes d, one
\* signal (source = state read, destination = d, no exception) is sent and
\* the call returns r.
C3_LiteralSuccess ==
    (/\ Called /\ Permitted(last.before)
     /\ Winner(last.before).destination.kind = "str"
     /\ GuardsPass(Winner(last.before))
     /\ last.behaviour.kind = "return")
       => /\ state = Winner(last.before).destination
          /\ last.sent = <<signal_kwargs(last.before,
                                         Winner(last.before).destination, None)>>
          /\ last.result = last.behaviour

\* C4: for a permitted transition with a ONE_OF destination and a wrapped
\* method returning a member r of the allowed set: the stored state becomes
\* r and one success signal with destination r is sent.
C4_OneOfSuccess ==
    (/\ Called /\ Permitted(last.before)
     /\ Winner(last.before).destination.kind = "ONE_OF"
     /\ GuardsPass(Winner(last.before))
     /\ last.behaviour.kind = "return"
     /\ last.behaviour.value \in Allowed(Winner(last.before).destination))
       => /\ state = last.behaviour.value
          /\ last.sent = <<signal_kwargs(last.before, last.behaviour.value, None)>>

\* C5: for a permitted transition with a ONE_OF destination and a wrapped
\* method returning a value outside the allowed set: the invalid-result
\* error reaches the caller, the stored state is unchanged and no signal is
\* sent, whether or not an error-fallback state is configured.
C5_InvalidResultNoFallback ==
    (/\ Called /\ Permitted(last.before)
     /\ Winner(last.before).destination.kind = "ONE_OF"
     /\ GuardsPass(Winner(last.before))
     /\ last.behaviour.kind = "return"
     /\ last.behaviour.value \notin Allowed(Winner(last.before).destination))
       => /\ last.result = Raise("TransitionNotAllowed", "ONE_OF.get_state")
          /\ state = last.before
          /\ last.sent = <<>>

\* C6: for a permitted transition with an error-fallback state f and a
\* wrapped method raising e: the stored state becomes f, one signal (source
\* = state read, destination = f, exception = e) is sent and e reaches the
\* caller.
C6_FallbackCommitted ==
    (/\ Called /\ Permitted(last.before)
     /\ Winner(last.before).on_error.kind # "None"
     /\ GuardsPass(Winner(last.before))
     /\ last.behaviour.kind = "raise")
       => /\ state = Winner(last.before).on_error
          /\ last.sent = <<signal_kwargs(last.before, Winner(last.before).on_error,
                                         last.behaviour.exc)>>
          /\ last.result = last.behaviour

\* C7: for a permitted transition without an error-fallback state and a
\* wrapped method raising e: the stored state is unchanged, no signal is
\* sent and e reaches the caller.
C7_NoFallbackSilent ==
    (/\ Called /\ Permitted(last.before)
     /\ Winner(last.before).on_error.kind = "None"
     /\ GuardsPass(Winner(last.before))
     /\ last.behaviour.kind = "raise")
       => /\ state = last.before
          /\ last.sent = <<>>
          /\ last.result = last.behaviour

\* C8: when the only applicable entry for s is a `+` entry, has_transition(s)
\* returns false if that entry's destination is s and true otherwise, and
\* never fails.
C8_PlusSelfLoop ==
    (last.op = "query" /\ ~Exact(last.st) /\ ~Star /\ Plus)
       => last.has_transition =
             Ret(transitions[Str("+")].destination # last.st)

\* C9: get_transition resolves exact entry, then `*`, then `+`, and returns
\* None (without raising) when nothing matches; next_state and
\* exception_state report the destination and fallback of that entry.
C9_LookupOrder ==
    (last.op = "query") =>
       LET s == last.st
           t == last.get_transition
       IN /\ Exact(s) => t = transitions[s] /\ t.source = s
          /\ (~Exact(s) /\ Star) => t = transitions[Str("*")] /\ t.source = Str("*")
          /\ (~Exact(s) /\ ~Star /\ Plus)
                => t = transitions[Str("+")] /\ t.source = Str("+")
          /\ (~Exact(s) /\ ~Star /\ ~Plus) => t = None
          /\ t # None => /\ last.next_state = Ret(t.destination)
                         /\ last.exception_state = Ret(t.on_error)

\* `*` and `+` are both registered with different destinations and
\* fallbacks, the queried state has no entry of its own, and `*` was returned
C9_Witness ==
    /\ last.op = "query" /\ ~Exact(last.st) /\ Star /\ Plus
    /\ transitions[Str("*")].destination # transitions[Str("+")].destination
    /\ transitions[Str("*")].on_error # transitions[Str("+")].on_error
    /\ last.next_state = Ret(transitions[Str("*")].destination)

\* C10: registering a source that already has a spec raises and leaves the
\* table as it was; registering distinct sources never raises; a `src`
\* sequence registers one spec per element, all with the same destination,
\* guards and fallback, under the same duplicate check.  Every table holds
\* at most one spec per source.
Entry(source, rec) ==
    [kind |-> "dict", source |-> source, destination |-> rec.dest,
     on_error |-> rec.on_error, conditions |-> rec.conditions]
SrcItems(src) == IF src.kind = "list" THEN src.items ELSE <<src>>
HasDuplicate(items) == \E i, j \in DOMAIN items : i < j /\ items[i] = items[j]
\* index of the first element that repeats an earlier one
FirstDuplicate(items) ==
    CHOOSE j \in DOMAIN items :
        /\ \E i \in 1..(j - 1) : items[i] = items[j]
        /\ \A k \in 1..(j - 1) : ~\E i \in 1..(k - 1) : items[i] = items[k]
C10_Step ==
    /\ \A k \in DOMAIN transitions' : transitions'[k].source = k
    /\ (last'.op = "add_transition") =>
          IF last'.source \in DOMAIN transitions
          THEN /\ last'.result = Raise("AssertionError", "add_transition")
               /\ transitions' = transitions
          ELSE /\ last'.result = Ret(None)
               /\ DOMAIN transitions' = DOMAIN transitions \cup {last'.source}
               /\ \A k \in DOMAIN transitions : transitions'[k] = transitions[k]
               /\ transitions'[last'.source] = Entry(last'.source, last')
    /\ (last'.op = "transition") =>
          LET items == SrcItems(last'.src) IN
          IF HasDuplicate(items)
          THEN /\ last'.result = Raise("AssertionError", "add_transition")
               /\ DOMAIN transitions' =
                     {items[i] : i \in 1..(FirstDuplicate(items) - 1)}
               /\ \A k \in DOMAIN transitions' : transitions'[k] = Entry(k, last')
          ELSE /\ last'.result = Ret(None)
               /\ DOMAIN transitions' = {items[i] : i \in DOMAIN items}
               /\ \A k \in DOMAIN transitions' : transitions'[k] = Entry(k, last')
C10_NoDuplicateSource == [][C10_Step]_vars

\* a second registration for a source, with another destination, was
\* refused and the first spec is still in the table
C10_Witness ==
    /\ last.op = "add_transition"
    /\ last.result = Raise("AssertionError", "add_transition")
    /\ transitions[last.source].destination # last.dest

\* ------------------------------------- the engine on exact and `*` entries
\* What change_state does when the current state has an entry of its own or
\* `*` is registered, i.e. when has_transition does not reach its `+` branch.
Direct(s) == Exact(s) \/ Star
Refused ==
    /\ IsTransitionNotAllowed(last.result)
    /\ ~Invoked
    /\ state = last.before
    /\ last.sent = <<>>
Engine_NoEntryRefused ==
    (Called /\ ~Direct(last.before) /\ ~Plus) => Refused
Engine_GuardFailsRefused ==
    (Called /\ Direct(last.before) /\ ~GuardsPass(Winner(last.before))) => Refused
Engine_LiteralCommitted ==
    (/\ Called /\ Direct(last.before) /\ GuardsPass(Winner(last.before))
     /\ Winner(last.before).destination.kind = "str"
     /\ last.behaviour.kind = "return")
       => /\ state = Winner(last.before).destination
          /\ last.sent = <<signal_kwargs(last.before,
                                         Winner(last.before).destination, None)>>
          /\ last.result = last.behaviour
Engine_OneOfCommitted ==
    (/\ Called /\ Direct(last.before) /\ GuardsPass(Winner(last.before))
     /\ Winner(last.before).destination.kind = "ONE_OF"
     /\ last.behaviour.kind = "return"
     /\ last.behaviour.value \in Allowed(Winner(last.before).destination))
       => /\ state = last.behaviour.value
          /\ last.sent = <<signal_kwargs(last.before, last.behaviour.value, None)>>
\* an invalid ONE_OF result takes the same path as an error of the method
Engine_InvalidResultFallsBack ==
    (/\ Called /\ Direct(last.before) /\ GuardsPass(Winner(last.before))
     /\ Winner(last.before).destination.kind = "ONE_OF"
     /\ last.behaviour.kind = "return"
     /\ last.behaviour.value \notin Allowed(Winner(last.before).destination))
       => /\ last.result = Raise("TransitionNotAllowed", "ONE_OF.get_state")
          /\ IF Truthy(Winner(last.before).on_error)
             THEN /\ state = Winner(last.before).on_error
                  /\ last.sent = <<signal_kwargs(last.before,
                                     Winner(last.before).on_error, last.result.exc)>>
             ELSE state = last.before /\ last.sent = <<>>
Engine_ErrorFallsBack ==
    (/\ Called /\ Direct(last.before) /\ GuardsPass(Winner(last.before))
     /\ last.behaviour.kind = "raise")
       => /\ last.result = last.behaviour
          /\ IF Truthy(Winner(last.before).on_error)
             THEN /\ state = Winner(last.before).on_error
                  /\ last.sent = <<signal_kwargs(last.before,
                                     Winner(last.before).on_error, last.behaviour.exc)>>
             ELSE state = last.before /\ last.sent = <<>>
EngineLemmas ==
    /\ Engine_NoEntryRefused
    /\ Engine_GuardFailsRefused
    /\ Engine_LiteralCommitted
    /\ Engine_OneOfCommitted
    /\ Engine_InvalidResultFallsBack
    /\ Engine_ErrorFallsBack

\* C11: ONE_OF() without arguments raises; built from one or more states,
\* as separate arguments or as one list, it holds the same allowed set, and
\* get_state(r) returns r for every r in that set and raises for every
\* other r.
C11_OneOfConstruction ==
    (last.op = "ONE_OF") =>
       LET given == {last.names[i] : i \in DOMAIN last.names} IN
       IF Len(last.names) = 0
       THEN last.separate = Raise("ValueError", "ONE_OF.__init__")
       ELSE /\ last.separate.kind = "return" /\ last.single.kind = "return"
            /\ Allowed(last.separate.value) = given
            /\ Allowed(last.single.value) = given
            /\ last.get_state_separate = last.get_state_single
            /\ IF last.r \in given
               THEN last.get_state_separate = Ret(last.r)
               ELSE last.get_state_separate.kind = "raise"

\* a ONE_OF built from two different states refused a result outside its set
C11_Witness ==
    /\ last.op = "ONE_OF" /\ Len(last.names) = 2
    /\ last.names[1] # last.names[2]
    /\ last.r \notin {last.names[1], last.names[2]}
    /\ last.get_state_single.kind = "raise"

Count(ev, name) == Cardinality({i \in DOMAIN ev : ev[i] = name})
Before(ev, first, second) ==
    \A i \in DOMAIN ev : ev[i] = second => \E j \in 1..(i - 1) : ev[j] = first

\* C12: for a permitted transition with destination None and a wrapped
\* method returning normally, nothing is written, the stored state equals
\* the state read, a success signal is still sent and the return value
\* reaches the caller.
C12_AbsentDestination ==
    (/\ Called /\ Permitted(last.before)
     /\ Winner(last.before).destination.kind = "None"
     /\ GuardsPass(Winner(last.before))
     /\ last.behaviour.kind = "return")
       => /\ Count(last.events, "set_state") = 0
          /\ state = last.before
          /\ last.sent = <<signal_kwargs(last.before, None, None)>>
          /\ last.result = last.behaviour

\* the same on exact and `*` entries
Engine_AbsentNoWrite ==
    (/\ Called /\ Direct(last.before) /\ GuardsPass(Winner(last.before))
     /\ Winner(last.before).destination.kind = "None"
     /\ last.behaviour.kind = "return")
       => /\ Count(last.events, "set_state") = 0
          /\ state = last.before
          /\ last.sent = <<signal_kwargs(last.before, None, None)>>
          /\ last.result = last.behaviour

\* C13: whatever its outcome, one change_state call reads the stored state
\* exactly once and writes it at most once.
C13_OneReadOneWrite ==
    (last.op = "change_state")
       => /\ Count(last.events, "get_state") = 1
          /\ Count(last.events, "set_state") <= 1

\* the wrapped method raised and the fallback was written, once
C13_Witness ==
    /\ last.op = "change_state"
    /\ last.behaviour.kind = "raise" /\ last.result = last.behaviour
    /\ Count(last.events, "set_state") = 1
    /\ state # last.before

\* C15: the wrapped method is called only after has_transition and
\* conditions_met held for the state read; the state is written only after
\* the method has returned or raised; a signal is sent only after the write,
\* so when a signal with a destination is delivered the stored state equals
\* that destination.
C15_StepOrder ==
    (last.op = "change_state") =>
       LET ev == last.events IN
       /\ ev[1] = "get_state"
       /\ Before(ev, "has_transition", "conditions_met")
       /\ Before(ev, "conditions_met", "method")
       /\ Count(ev, "method") > 0
             => Permitted(last.before) /\ GuardsPass(Winner(last.before))
       /\ Before(ev, "method", "set_state")
       /\ Before(ev, "method", "send")
       /\ \A i, j \in DOMAIN ev : (ev[i] = "set_state" /\ ev[j] = "send") => i < j
       /\ Count(ev, "send") = Len(last.sent)
       /\ last.sent # <<>> =>
             /\ ev[Len(ev)] = "send"
             /\ last.sent[1].destination.kind # "None" =>
                   /\ Count(ev, "set_state") = 1
                   /\ state = last.sent[1].destination

\* the method raised, the fallback was written and then the signal was sent
C15_Witness ==
    /\ last.op = "change_state"
    /\ last.behaviour.kind = "raise"
    /\ last.sent # <<>>
    /\ state = last.sent[1].destination
    /\ state # last.before

\* C14: a receiver that raises while the signal is published does not change
\* what the caller gets: after a success signal the call returns the wrapped
\* method's return value, after a failure signal the caller gets the error
\* the signal carries.
C14_ReceiverErrorIsolated ==
    (Called /\ last.sent # <<>>) =>
       IF last.sent[1].exception = None
       THEN last.result = last.behaviour
       ELSE last.result.kind = "raise" /\ last.result.exc = last.sent[1].exception

\* C16: conditions_met is false when no spec resolves for the state, true
\* when the resolved spec has no guards (None or an empty list), and
\* otherwise true exactly when every guard of the resolved spec returns
\* true; the guards are those of the entry the lookup order chooses.
C16_ConditionsMet ==
    (last.op = "query") =>
       LET s == last.st IN
       IF ~Exact(s) /\ ~Star /\ ~Plus
       THEN last.conditions_met = FALSE
       ELSE LET c == Winner(s).conditions IN
            IF c.kind = "None" THEN last.conditions_met = TRUE
            ELSE IF Len(c.items) = 0 THEN last.conditions_met = TRUE
            ELSE last.conditions_met =
                    (\A i \in DOMAIN c.items : last.guardVal[c.items[i]])

\* the state's own entry has a failing guard while the `*` entry has no
\* guards at all: conditions_met is false
C16_Witness ==
    /\ last.op = "query" /\ Exact(last.st) /\ Star
    /\ transitions[last.st].conditions.kind = "list"
    /\ \E i \in DOMAIN transitions[last.st].conditions.items :
          ~last.guardVal[transitions[last.st].conditions.items[i]]
    /\ transitions[Str("*")].conditions.kind = "None"
    /\ last.conditions_met = FALSE

\* C17: when the wrapped method raises, every configured (not None)
\* error-fallback state is written and one failure signal is sent, also when
\* that state is the empty string.
C17_FalsyFallback ==
    (/\ Called /\ Invoked
     /\ last.behaviour.kind = "raise"
     /\ Winner(last.before).on_error.kind # "None")
       => /\ state = Winner(last.before).on_error
          /\ last.sent = <<signal_kwargs(last.before, Winner(last.before).on_error,
                                         last.behaviour.exc)>>

\* ---------------------------------------------------------------- C18
\* C18: once declared, the transition table is not modified by an execution
\* or by a binding: a call of the decorated method, a query, a direct
\* assignment and assign_field_to_tag all leave `transitions` as it was, so
\* get_transition and has_transition answer the same for every state; a
\* binding changes only the tag's field, and only when the sender is the
\* owner class or a subclass and the tag holds this field's name.
C18_Step ==
    /\ last'.op \in {"change_state", "_change_state", "query", "__set__",
                     "assign_field_to_tag"}
          => /\ transitions' = transitions
             /\ \A s \in States :
                   /\ get_transition(transitions', s) = get_transition(transitions, s)
                   /\ has_transition(transitions', s) = has_transition(transitions, s)
    /\ last'.op = "assign_field_to_tag"
          => /\ state' = state
             /\ field' = IF last'.sender # "unrelated" /\ field = Str(FieldName)
                         THEN TheField ELSE field
    /\ last'.op \in {"change_state", "_change_state", "query", "__set__"}
          => field' = field
C18_TableImmutable == [][C18_Step]_vars

\* a tag declared with the field's name, whose method was already called on
\* an instance, is bound by a subclass of the owner; its table has entries
C18_Witness ==
    /\ last.op = "assign_field_to_tag" /\ last.sender = "subclass"
    /\ last.tagField = Str(FieldName)
    /\ field = TheField
    /\ phase = "ready"
    /\ state.kind = "str"
    /\ DOMAIN transitions # {}

\* ---------------------------------------------------------------- C19
\* the states a table declares: literal destinations, ONE_OF members and
\* error-fallback states
DeclaredStates(table) ==
    UNION {
        (IF table[k].destination.kind = "str" THEN {table[k].destination}
         ELSE IF table[k].destination.kind = "ONE_OF"
         THEN Allowed(table[k].destination) ELSE {})
        \cup (IF table[k].on_error.kind = "str" THEN {table[k].on_error} ELSE {})
        : k \in DOMAIN table }

\* C19: after the initial assignment, every change of the stored state puts
\* it on a literal destination, a ONE_OF member or an error-fallback state
\* that the tag declares; the stored state is a string, never None and never
\* a ONE_OF object.
C19_Step ==
    (state.kind # "unset" /\ state' # state)
        => /\ state' \in DeclaredStates(transitions)
           /\ state'.kind = "str"
C19_StateDeclared == [][C19_Step]_vars

\* the method returned a member of the ONE_OF destination and that member,
\* different from the state before, was committed
C19_Witness ==
    /\ Called /\ Invoked
    /\ (Exact(last.before) \/ Star)
    /\ Winner(last.before).destination.kind = "ONE_OF"
    /\ last.behaviour.kind = "return"
    /\ state = last.behaviour.value
    /\ state # last.before

\* ---------------------------------------------------------------- C20
\* C20: with readonly = True the first assignment through the descriptor
\* stores the value; every later one raises AttributeError and leaves the
\* stored state as it was.  After the first assignment the stored state
\* changes only in a change_state call, by its single set_state, to the
\* destination carried by the signal it sends.
C20_Step ==
    /\ last'.op = "__set__"
          => IF state.kind = "unset"
             THEN state' = last'.value /\ last'.result = Ret(None)
             ELSE /\ state' = state
                  /\ last'.result = Raise("AttributeError", "__set__")
    /\ (state.kind # "unset" /\ state' # state)
          => /\ last'.op = "change_state"
             /\ Count(last'.events, "set_state") = 1
             /\ Len(last'.sent) = 1
             /\ state' = last'.sent[1].destination
C20_ReadOnly == [][C20_Step]_vars

\* the instance holds a state that the table declares and a direct
\* assignment of another value is refused
C20_Witness ==
    /\ last.op = "__set__"
    /\ last.result = Raise("AttributeError", "__set__")
    /\ state.kind = "str"
    /\ last.value # state
    /\ state \in DeclaredStates(transitions)

====
